---- MODULE Spec2Model ----
(***************************************************************************)
(* Model of HimAndRobot/whisper.                                           *)
(*                                                                         *)
(*   Spec        the live pipeline of src/realtime_transcription.py as the *)
(*               program runs it: main() -> RealTimeTranscriber.run(),     *)
(*               which calls start_recording once, sleeps until Ctrl+C     *)
(*               (or a start-up error), calls stop_recording and returns,  *)
(*               after which the interpreter exits and the two daemon      *)
(*               threads are abandoned.                                    *)
(*   SpecUpload  the upload service of src/main.py: POST /transcribe and   *)
(*               POST /transcribe-batch, one request at a time.            *)
(*   SpecStartup the start-up of either program: config.validate_config,   *)
(*               then the model is loaded or the program ends.             *)
(*   SpecApi     one RealTimeTranscriber whose start_recording and         *)
(*               stop_recording are called in any order by a caller that   *)
(*               keeps running, with the threads each start creates;       *)
(*               SpecApiFair adds weak fairness of the thread steps.       *)
(*                                                                         *)
(* Strings are sequences of one-character strings, so that lower(),        *)
(* strip() and os.path.splitext are computed and not assumed.              *)
(***************************************************************************)
EXTENDS Integers, Sequences, FiniteSets, TLC

(***************************************************************************)
(* Bounds of the model.                                                    *)
(***************************************************************************)
\* successful stream.read calls of one run (two full chunks and one frame)
MaxReads == 93
\* ticks of the wall clock (time.time() in whole seconds) during one run
MaxTime == 1
\* calls of start_recording and stop_recording a caller makes
MaxCalls == 2
\* chunks captured in a run with a caller
MaxChunks == 2

(***************************************************************************)
(* Program constants of RealTimeTranscriber.__init__.                      *)
(***************************************************************************)
RATE == 16000
CHUNK == 1024
RECORD_SECONDS == 3

VARIABLES
    \* ---- RealTimeTranscriber (src/realtime_transcription.py) ----
    main_pc,          \* position of the main thread in run()
    is_recording,     \* self.is_recording
    is_transcribing,  \* self.is_transcribing
    stream,           \* self.stream: "none" (no attribute), "open", "closed"
    audio,            \* self.audio: "ready", "terminated"
    audio_queue,      \* self.audio_queue: sequence of chunks
    rec_pc,           \* position of the capture thread (_record_audio)
    frames,           \* _record_audio: frames (the accumulator)
    chunk_count,      \* _record_audio: chunk_count
    frames_per_chunk, \* _record_audio: frames_per_chunk
    data,             \* _record_audio: data, the frame just read (0: none)
    tr_pc,            \* position of the worker thread (_transcribe_audio)
    cur,              \* _transcribe_audio: frames, the chunk dequeued
    temp_filename,    \* _transcribe_audio: temp_filename (-1: not in locals())
    fs,               \* temp_chunk_<t>.wav files in the working directory
    now,              \* int(time.time())
    \* ---- history of the live pipeline ----
    reads,            \* number of frames stream.read has returned
    rec_end,          \* how the capture loop ended: "", "flag", "error"
    putLog,           \* every chunk put on audio_queue, in order
    procLog,          \* one record per chunk dequeued: how its iteration ended
    output,           \* the lines printed by the worker
    \* ---- the upload service (src/main.py) ----
    up_pc,            \* "idle", or "batch" inside transcribe_batch's loop
    up_fs,            \* the temporary files that exist (tempfile's directory)
    up_seq,           \* how many temporary files tempfile has created
    served,           \* requests accepted so far
    req,              \* the last request, if a POST /transcribe: input, outcome
    batch_files,      \* transcribe_batch: files
    batch_results,    \* transcribe_batch: results
    batch_resp,       \* the last request, if a POST /transcribe-batch: outcome
    \* ---- start-up of either program (src/config.py) ----
    cfg,              \* the attributes of config that validate_config reads
    program,          \* the program started: "api" (main.py), "cli"
    boot_pc,          \* position of the start-up code
    validation,       \* validation = config.validate_config()
    model_loaded,     \* whether WhisperModel(...) has been constructed
    \* ---- a transcriber driven through its methods by a caller ----
    api_pc,           \* position of the caller inside stop_recording
    api_log,          \* the calls made so far and how each ended
    rec_threads,      \* one capture thread per start_recording that got there
    tr_threads,       \* one worker thread per start_recording that got there
                      \* (submitted: the chunks it passed to model.transcribe)
    streams_open      \* device streams opened and not closed

pipeVars == <<main_pc, is_recording, is_transcribing, stream, audio,
              audio_queue, rec_pc, frames, chunk_count, frames_per_chunk,
              data, tr_pc, cur, temp_filename, fs, now, reads, rec_end,
              putLog, procLog, output>>

upVars == <<up_pc, up_fs, up_seq, served, req, batch_files, batch_results,
            batch_resp>>

bootVars == <<cfg, program, boot_pc, validation, model_loaded>>

apiVars == <<api_pc, api_log, rec_threads, tr_threads, streams_open>>

vars == <<pipeVars, upVars, bootVars, apiVars>>

(***************************************************************************)
(* Strings.                                                                *)
(***************************************************************************)
RECURSIVE Concat(_)
\* text = ""; for segment in segments: text += segment.text
Concat(texts) ==
    IF texts = <<>> THEN <<>> ELSE Head(texts) \o Concat(Tail(texts))

Whitespace == {" "}

RECURSIVE LStrip(_)
LStrip(s) ==
    IF s # <<>> /\ Head(s) \in Whitespace THEN LStrip(Tail(s)) ELSE s

RECURSIVE RStrip(_)
RStrip(s) ==
    IF s # <<>> /\ s[Len(s)] \in Whitespace
    THEN RStrip(SubSeq(s, 1, Len(s) - 1)) ELSE s

\* str.strip()
Strip(s) == RStrip(LStrip(s))

(***************************************************************************)
(* The capture thread: RealTimeTranscriber._record_audio.                  *)
(***************************************************************************)
\* a slip: math.ceil in place of int
FramesPerChunkCeil(rate, chunk, seconds) ==
    (rate * seconds + chunk - 1) \div chunk

\* int(self.RATE / self.CHUNK * self.RECORD_SECONDS): the quotient is exact
\* in binary floating point for the configured values, and int() truncates.
FramesPerChunk(rate, chunk, seconds) == (rate * seconds) \div chunk

\* a slip: the chunk is put one frame late
ChunkCompleteLate(count, perChunk) == count > perChunk

\* if chunk_count >= frames_per_chunk
ChunkComplete(count, perChunk) == count >= perChunk

\* frames = []; chunk_count = 0; frames_per_chunk = int(...)
RecordBegin ==
    /\ rec_pc = "start"
    /\ frames' = <<>>
    /\ chunk_count' = 0
    /\ frames_per_chunk' = FramesPerChunk(RATE, CHUNK, RECORD_SECONDS)
    /\ rec_pc' = "loop"
    /\ UNCHANGED <<upVars, bootVars, apiVars>>
    /\ UNCHANGED <<main_pc, is_recording, is_transcribing, stream, audio,
                   audio_queue, data, tr_pc, cur, temp_filename, fs, now,
                   reads, rec_end, putLog, procLog, output>>

\* a slip: when the flag ends the loop, what the accumulator holds is put
RecordLoopFlushes ==
    /\ rec_pc = "loop"
    /\ IF is_recording
       THEN /\ rec_pc' = "read"
            /\ UNCHANGED <<rec_end, audio_queue, putLog>>
       ELSE /\ rec_pc' = "done"
            /\ rec_end' = "flag"
            /\ audio_queue' =
                   IF frames # <<>> THEN Append(audio_queue, frames)
                                    ELSE audio_queue
            /\ putLog' = IF frames # <<>> THEN Append(putLog, frames)
                                          ELSE putLog
    /\ UNCHANGED <<upVars, bootVars, apiVars>>
    /\ UNCHANGED <<main_pc, is_recording, is_transcribing, stream, audio,
                   frames, chunk_count, frames_per_chunk, data, tr_pc, cur,
                   temp_filename, fs, now, reads, procLog, output>>

\* while self.is_recording:
RecordLoop ==
    /\ rec_pc = "loop"
    /\ IF is_recording
       THEN rec_pc' = "read" /\ rec_end' = rec_end
       ELSE rec_pc' = "done" /\ rec_end' = "flag"
    /\ UNCHANGED <<upVars, bootVars, apiVars>>
    /\ UNCHANGED <<main_pc, is_recording, is_transcribing, stream, audio,
                   audio_queue, frames, chunk_count, frames_per_chunk, data,
                   tr_pc, cur, temp_filename, fs, now, reads, putLog,
                   procLog, output>>

\* data = self.stream.read(self.CHUNK) returns a frame
RecordRead ==
    /\ rec_pc = "read"
    /\ stream = "open"
    /\ reads < MaxReads
    /\ reads' = reads + 1
    /\ data' = reads + 1
    /\ rec_pc' = "append"
    /\ UNCHANGED <<upVars, bootVars, apiVars>>
    /\ UNCHANGED <<main_pc, is_recording, is_transcribing, stream, audio,
                   audio_queue, frames, chunk_count, frames_per_chunk,
                   tr_pc, cur, temp_filename, fs, now, rec_end, putLog,
                   procLog, output>>

\* a slip: the handler puts what the accumulator holds before the break
RecordReadErrorFlushes ==
    /\ rec_pc = "read"
    /\ rec_pc' = "done"
    /\ rec_end' = "error"
    /\ audio_queue' = Append(audio_queue, frames)
    /\ putLog' = Append(putLog, frames)
    /\ UNCHANGED <<upVars, bootVars, apiVars>>
    /\ UNCHANGED <<main_pc, is_recording, is_transcribing, stream, audio,
                   frames, chunk_count, frames_per_chunk, data, tr_pc, cur,
                   temp_filename, fs, now, reads, procLog, output>>

\* self.stream.read raises (a device error at any time, and always on a
\* stream that stop_recording has stopped and closed): log, break
RecordReadError ==
    /\ rec_pc = "read"
    /\ rec_pc' = "done"
    /\ rec_end' = "error"
    /\ UNCHANGED <<upVars, bootVars, apiVars>>
    /\ UNCHANGED <<main_pc, is_recording, is_transcribing, stream, audio,
                   audio_queue, frames, chunk_count, frames_per_chunk, data,
                   tr_pc, cur, temp_filename, fs, now, reads, putLog,
                   procLog, output>>

\* frames.append(data); chunk_count += 1; if chunk_count >= frames_per_chunk:
\* self.audio_queue.put(frames.copy()); frames.clear(); chunk_count = 0
RecordAppend ==
    /\ rec_pc = "append"
    /\ LET fr == Append(frames, data)
           cnt == chunk_count + 1
       IN IF ChunkComplete(cnt, frames_per_chunk)
          THEN /\ audio_queue' = Append(audio_queue, fr)
               /\ putLog' = Append(putLog, fr)
               /\ frames' = <<>>
               /\ chunk_count' = 0
          ELSE /\ frames' = fr
               /\ chunk_count' = cnt
               /\ UNCHANGED <<audio_queue, putLog>>
    /\ data' = 0
    /\ rec_pc' = "loop"
    /\ UNCHANGED <<upVars, bootVars, apiVars>>
    /\ UNCHANGED <<main_pc, is_recording, is_transcribing, stream, audio,
                   frames_per_chunk, tr_pc, cur, temp_filename, fs, now,
                   reads, rec_end, procLog, output>>

(***************************************************************************)
(* The worker thread: RealTimeTranscriber._transcribe_audio.               *)
(***************************************************************************)
\* What model.transcribe can do on a chunk file: raise (from the call or
\* while its lazy segments are read), or yield segments with these texts.
StreamSegmentTexts ==
    { <<>>, << <<" ">> >>, << <<" ", "a">> >>, << <<" ", "a">>, <<" ">> >> }

\* the last record of procLog with its fields filled in: the files created
\* for the chunk, how its iteration ended, and whether os.remove raised in
\* the except handler
Logged(log, created, outcome, raised) ==
    [log EXCEPT ![Len(log)] =
        [@ EXCEPT !.created = created, !.outcome = outcome,
                  !.handler_raised = raised]]

\* a slip: the handler only logs
ExceptHandlerLogsOnly(files, name, rmOk) == [fs |-> files, raised |-> FALSE]

\* except Exception as e: logger.error(...);
\* if 'temp_filename' in locals() and os.path.exists(temp_filename):
\*     os.remove(temp_filename)
\* The result is the files left and whether os.remove raised in the handler,
\* which ends the thread. rmOk: whether the environment lets os.remove work.
ExceptHandler(files, name, rmOk) ==
    IF name # -1 /\ name \in files
    THEN IF rmOk THEN [fs |-> files \ {name}, raised |-> FALSE]
                 ELSE [fs |-> files, raised |-> TRUE]
    ELSE [fs |-> files, raised |-> FALSE]

\* self.is_transcribing = True
TranscribeInit ==
    /\ tr_pc = "start"
    /\ is_transcribing' = TRUE
    /\ tr_pc' = "loop"
    /\ UNCHANGED <<upVars, bootVars, apiVars>>
    /\ UNCHANGED <<main_pc, is_recording, stream, audio, audio_queue, rec_pc,
                   frames, chunk_count, frames_per_chunk, data, cur,
                   temp_filename, fs, now, reads, rec_end, putLog, procLog,
                   output>>

\* while self.is_transcribing or not self.audio_queue.empty():
WorkerContinues(flag, q) == flag \/ q # <<>>

TranscribeLoop ==
    /\ tr_pc = "loop"
    /\ tr_pc' = IF WorkerContinues(is_transcribing, audio_queue)
                THEN "get" ELSE "done"
    /\ UNCHANGED <<upVars, bootVars, apiVars>>
    /\ UNCHANGED <<main_pc, is_recording, is_transcribing, stream, audio,
                   audio_queue, rec_pc, frames, chunk_count,
                   frames_per_chunk, data, cur, temp_filename, fs, now,
                   reads, rec_end, putLog, procLog, output>>

\* a slip: the worker takes the newest chunk of the queue
TranscribeGetNewest ==
    /\ tr_pc = "get"
    /\ audio_queue # <<>>
    /\ cur' = audio_queue[Len(audio_queue)]
    /\ audio_queue' = SubSeq(audio_queue, 1, Len(audio_queue) - 1)
    /\ procLog' = Append(procLog,
                         [chunk |-> audio_queue[Len(audio_queue)],
                          created |-> 0, outcome |-> "pending",
                          handler_raised |-> FALSE])
    /\ tr_pc' = "write"
    /\ UNCHANGED <<upVars, bootVars, apiVars>>
    /\ UNCHANGED <<main_pc, is_recording, is_transcribing, stream, audio,
                   rec_pc, frames, chunk_count, frames_per_chunk, data,
                   temp_filename, fs, now, reads, rec_end, putLog, output>>

\* frames = self.audio_queue.get(timeout=1) returns the oldest chunk
TranscribeGet ==
    /\ tr_pc = "get"
    /\ audio_queue # <<>>
    /\ cur' = Head(audio_queue)
    /\ audio_queue' = Tail(audio_queue)
    /\ procLog' = Append(procLog,
                         [chunk |-> Head(audio_queue), created |-> 0,
                          outcome |-> "pending", handler_raised |-> FALSE])
    /\ tr_pc' = "write"
    /\ UNCHANGED <<upVars, bootVars, apiVars>>
    /\ UNCHANGED <<main_pc, is_recording, is_transcribing, stream, audio,
                   rec_pc, frames, chunk_count, frames_per_chunk, data,
                   temp_filename, fs, now, reads, rec_end, putLog, output>>

\* the queue stayed empty for the timeout: except queue.Empty: continue
TranscribeGetTimeout ==
    /\ tr_pc = "get"
    /\ audio_queue = <<>>
    /\ tr_pc' = "loop"
    /\ UNCHANGED <<upVars, bootVars, apiVars>>
    /\ UNCHANGED <<main_pc, is_recording, is_transcribing, stream, audio,
                   audio_queue, rec_pc, frames, chunk_count,
                   frames_per_chunk, data, cur, temp_filename, fs, now,
                   reads, rec_end, putLog, procLog, output>>

\* temp_filename = f"temp_chunk_{int(time.time())}.wav"
TempChunkName(t) == t

\* with wave.open(temp_filename, 'wb') as wf: ... wf.writeframes(...)
\* w = "ok": the file is written; "open": wave.open raises and creates
\* nothing; "write": the file is created and writing it raises.
TranscribeWrite ==
    /\ tr_pc = "write"
    /\ \E w \in {"ok", "open", "write"}, rmOk \in BOOLEAN :
         LET name == TempChunkName(now)
             made == IF w = "open" THEN fs ELSE fs \cup {name}
             n == IF w = "open" THEN 0 ELSE 1
             h == ExceptHandler(made, name, rmOk)
         IN /\ temp_filename' = name
            /\ IF w = "ok"
               THEN /\ fs' = made
                    /\ tr_pc' = "transcribe"
                    /\ procLog' = Logged(procLog, n, "pending", FALSE)
               ELSE /\ fs' = h.fs
                    /\ tr_pc' = IF h.raised THEN "crashed" ELSE "loop"
                    /\ procLog' = Logged(procLog, n, "write_error", h.raised)
    /\ UNCHANGED <<upVars, bootVars, apiVars>>
    /\ UNCHANGED <<main_pc, is_recording, is_transcribing, stream, audio,
                   audio_queue, rec_pc, frames, chunk_count,
                   frames_per_chunk, data, cur, now, reads, rec_end, putLog,
                   output>>

\* segments, info = self.model.transcribe(temp_filename, ...);
\* text = "" ; for segment in segments: text += segment.text;
\* if text.strip(): print(...); os.remove(temp_filename); and the handler
\* of whatever raises. rm1: whether os.remove works on the success path,
\* rm2: whether it works in the handler.
TranscribeInfer ==
    /\ tr_pc = "transcribe"
    /\ \E raises \in BOOLEAN, res \in StreamSegmentTexts,
          rm1 \in BOOLEAN, rm2 \in BOOLEAN :
         LET h == ExceptHandler(fs, temp_filename, rm2)
             text == Concat(res)
             line == Strip(text)
             n == procLog[Len(procLog)].created
         IN IF raises
            THEN /\ fs' = h.fs
                 /\ tr_pc' = IF h.raised THEN "crashed" ELSE "loop"
                 /\ procLog' = Logged(procLog, n, "infer_error", h.raised)
                 /\ output' = output
            ELSE /\ output' = IF line # <<>>
                              THEN Append(output, [chunk |-> cur, text |-> line])
                              ELSE output
                 /\ IF temp_filename \in fs /\ rm1
                    THEN /\ fs' = fs \ {temp_filename}
                         /\ tr_pc' = "loop"
                         /\ procLog' = Logged(procLog, n, "ok", FALSE)
                    ELSE /\ fs' = h.fs
                         /\ tr_pc' = IF h.raised THEN "crashed" ELSE "loop"
                         /\ procLog' = Logged(procLog, n, "remove_error", h.raised)
    /\ UNCHANGED <<upVars, bootVars, apiVars>>
    /\ UNCHANGED <<main_pc, is_recording, is_transcribing, stream, audio,
                   audio_queue, rec_pc, frames, chunk_count,
                   frames_per_chunk, data, cur, temp_filename, now, reads,
                   rec_end, putLog>>

(***************************************************************************)
(* The main thread: main(), RealTimeTranscriber.run, start_recording and   *)
(* stop_recording.                                                         *)
(***************************************************************************)
\* self.start_recording(): the stream opens, is_recording = True, both
\* daemon threads are started; then run() sleeps in its loop
StartRecording ==
    /\ main_pc = "init"
    /\ stream' = "open"
    /\ is_recording' = TRUE
    /\ rec_pc' = "start"
    /\ tr_pc' = "start"
    /\ main_pc' = "recording"
    /\ UNCHANGED <<upVars, bootVars, apiVars>>
    /\ UNCHANGED <<is_transcribing, audio, audio_queue, frames, chunk_count,
                   frames_per_chunk, data, cur, temp_filename, fs, now,
                   reads, rec_end, putLog, procLog, output>>

\* self.audio.open raises: start_recording logs and re-raises, run() catches
\* Exception and calls stop_recording
StartRecordingFails ==
    /\ main_pc = "init"
    /\ main_pc' = "stop_a"
    /\ UNCHANGED <<upVars, bootVars, apiVars>>
    /\ UNCHANGED <<is_recording, is_transcribing, stream, audio, audio_queue,
                   rec_pc, frames, chunk_count, frames_per_chunk, data,
                   tr_pc, cur, temp_filename, fs, now, reads, rec_end,
                   putLog, procLog, output>>

\* Ctrl+C in run()'s sleep loop: except KeyboardInterrupt: stop_recording()
KeyboardInterrupt ==
    /\ main_pc = "recording"
    /\ main_pc' = "stop_a"
    /\ UNCHANGED <<upVars, bootVars, apiVars>>
    /\ UNCHANGED <<is_recording, is_transcribing, stream, audio, audio_queue,
                   rec_pc, frames, chunk_count, frames_per_chunk, data,
                   tr_pc, cur, temp_filename, fs, now, reads, rec_end,
                   putLog, procLog, output>>

\* stop_recording: self.is_recording = False
StopRecordingFlag ==
    /\ main_pc = "stop_a"
    /\ is_recording' = FALSE
    /\ main_pc' = "stop_b"
    /\ UNCHANGED <<upVars, bootVars, apiVars>>
    /\ UNCHANGED <<is_transcribing, stream, audio, audio_queue, rec_pc,
                   frames, chunk_count, frames_per_chunk, data, tr_pc, cur,
                   temp_filename, fs, now, reads, rec_end, putLog, procLog,
                   output>>

\* stop_recording: self.is_transcribing = False
StopTranscribingFlag ==
    /\ main_pc = "stop_b"
    /\ is_transcribing' = FALSE
    /\ main_pc' = "stop_c"
    /\ UNCHANGED <<upVars, bootVars, apiVars>>
    /\ UNCHANGED <<is_recording, stream, audio, audio_queue, rec_pc, frames,
                   chunk_count, frames_per_chunk, data, tr_pc, cur,
                   temp_filename, fs, now, reads, rec_end, putLog, procLog,
                   output>>

\* stop_recording: if hasattr(self, 'stream'): stop_stream(); close();
\* self.audio.terminate(); and it returns. No thread is joined.
StopRecordingClose ==
    /\ main_pc = "stop_c"
    /\ stream' = IF stream = "none" THEN "none" ELSE "closed"
    /\ audio' = "terminated"
    /\ main_pc' = "stopped"
    /\ UNCHANGED <<upVars, bootVars, apiVars>>
    /\ UNCHANGED <<is_recording, is_transcribing, audio_queue, rec_pc,
                   frames, chunk_count, frames_per_chunk, data, tr_pc, cur,
                   temp_filename, fs, now, reads, rec_end, putLog, procLog,
                   output>>

\* a thread's position once the interpreter has exited: both threads are
\* daemon threads (daemon = True), which the exit abandons where they are
Abandoned(pc) ==
    IF pc \in {"unborn", "done", "crashed"} THEN pc ELSE "killed"

\* run() returns after stop_recording, main() returns, the process exits
ProcessExit ==
    /\ main_pc = "stopped"
    /\ main_pc' = "exited"
    /\ rec_pc' = Abandoned(rec_pc)
    /\ tr_pc' = Abandoned(tr_pc)
    /\ UNCHANGED <<upVars, bootVars, apiVars>>
    /\ UNCHANGED <<is_recording, is_transcribing, stream, audio, audio_queue,
                   frames, chunk_count, frames_per_chunk, data, cur,
                   temp_filename, fs, now, reads, rec_end, putLog, procLog,
                   output>>

\* the wall clock passes a whole second
Tick ==
    /\ main_pc # "exited"
    /\ now < MaxTime
    /\ now' = now + 1
    /\ UNCHANGED <<upVars, bootVars, apiVars>>
    /\ UNCHANGED <<main_pc, is_recording, is_transcribing, stream, audio,
                   audio_queue, rec_pc, frames, chunk_count,
                   frames_per_chunk, data, tr_pc, cur, temp_filename, fs,
                   reads, rec_end, putLog, procLog, output>>

(***************************************************************************)
(* The upload service: src/main.py.                                        *)
(***************************************************************************)
\* requests of one run, to either endpoint
MaxRequests == 1
\* files of one POST /transcribe-batch
MaxBatch == 3

\* config.MAX_FILE_SIZE: int(os.getenv("MAX_FILE_SIZE", "100")) * 1024 * 1024
MAX_FILE_SIZE == 100 * 1024 * 1024

UpperCase == <<"A", "B", "C", "D", "E", "F", "G", "H", "I", "J", "K", "L", "M",
               "N", "O", "P", "Q", "R", "S", "T", "U", "V", "W", "X", "Y", "Z">>
LowerCase == <<"a", "b", "c", "d", "e", "f", "g", "h", "i", "j", "k", "l", "m",
               "n", "o", "p", "q", "r", "s", "t", "u", "v", "w", "x", "y", "z">>

LowerChar(c) ==
    IF \E i \in 1..Len(UpperCase) : UpperCase[i] = c
    THEN LowerCase[CHOOSE i \in 1..Len(UpperCase) : UpperCase[i] = c]
    ELSE c

\* str.lower()
Lower(s) == [i \in 1..Len(s) |-> LowerChar(s[i])]

\* str.rfind of one character, counted from 1 (0: not found)
RFind(p, c) ==
    IF \E i \in 1..Len(p) : p[i] = c
    THEN CHOOSE i \in 1..Len(p) :
             p[i] = c /\ \A j \in (i + 1)..Len(p) : p[j] # c
    ELSE 0

\* os.path.splitext (posixpath: sep "/", extsep "."): the extension starts
\* at the last dot of the last path component, unless only dots precede it
Splitext(p) ==
    LET sepIndex == RFind(p, "/")
        dotIndex == RFind(p, ".")
    IN IF /\ dotIndex > sepIndex
          /\ \E k \in (sepIndex + 1)..(dotIndex - 1) : p[k] # "."
       THEN <<SubSeq(p, 1, dotIndex - 1), SubSeq(p, dotIndex, Len(p))>>
       ELSE <<p, <<>>>>

allowed_extensions ==
    << <<".", "m", "p", "3">>,
       <<".", "w", "a", "v">>,
       <<".", "m", "4", "a">>,
       <<".", "o", "g", "g">>,
       <<".", "f", "l", "a", "c">>,
       <<".", "a", "a", "c">> >>

\* a slip: the extension is compared as the client wrote it
FileExtensionAsWritten(filename) == Splitext(filename)[2]

\* file_extension = os.path.splitext(file.filename)[1].lower()
FileExtension(filename) == Lower(Splitext(filename)[2])

\* a slip: the extension is checked before the name
ValidateExtensionFirst(filename) ==
    IF ~ \E i \in 1..Len(allowed_extensions) :
             allowed_extensions[i] = FileExtension(filename)
    THEN "unsupported"
    ELSE IF filename = <<>> THEN "no_file" ELSE "ok"

\* the two checks before the try block, in their order:
\* if not file.filename: 400; if file_extension not in allowed_extensions: 400
Validate(filename) ==
    IF filename = <<>> THEN "no_file"
    ELSE IF ~ \E i \in 1..Len(allowed_extensions) :
                  allowed_extensions[i] = FileExtension(filename)
         THEN "unsupported"
         ELSE "ok"

NoFileDetail == "Nenhum arquivo enviado"
UnsupportedDetail == "Formato de arquivo nao suportado"
ErrorDetail == "Erro na transcricao"

\* raise HTTPException(status_code=..., detail=...)
HTTPException(code, detail, cause) ==
    [status |-> code, detail |-> detail, cause |-> cause]

\* a slip: "words" is a key of every entry
SegmentDictAlwaysWords(segment, word_timestamps) ==
    [start |-> segment.start, end |-> segment.end,
     text |-> segment.text, words |-> segment.words]

\* one entry of segments_list: "words" is a key only if word_timestamps
SegmentDict(segment, word_timestamps) ==
    IF word_timestamps
    THEN [start |-> segment.start, end |-> segment.end,
          text |-> segment.text, words |-> segment.words]
    ELSE [start |-> segment.start, end |-> segment.end,
          text |-> segment.text]

\* TranscriptionResponse(text=full_text.strip(), ..., segments=segments_list)
TranscriptionResponse(segments, word_timestamps) ==
    [status |-> 200,
     text |-> Strip(Concat([i \in 1..Len(segments) |-> segments[i].text])),
     segments |-> [i \in 1..Len(segments) |->
                      SegmentDict(segments[i], word_timestamps)]]

\* except Exception: if 'temp_file_path' in locals(): try: os.unlink(...)
\* except: pass. bound: whether temp_file_path was assigned; unlinkOk:
\* whether the environment lets os.unlink work. The files left.
UploadCleanup(files, path, bound, unlinkOk) ==
    IF bound /\ unlinkOk THEN files \ {path} ELSE files

\* transcribe_audio(file, word_timestamps=...), given the temporary files
\* that exist and the number tempfile has created. file.fault is the step
\* of the try block that raises for this upload (or "none"), file.unlinkOk
\* whether os.unlink works on its temporary file. The result, the files
\* left, the temporary file created (0: none) and the calls of
\* model.transcribe made.
TranscribeAudio(file, word_timestamps, files, seq) ==
    LET v == Validate(file.filename)
        path == seq + 1
        made == files \cup {path}
        failed(cause, bound, calls) ==
            [result |-> HTTPException(500, ErrorDetail, cause),
             fs |-> UploadCleanup(made, path, bound, file.unlinkOk),
             seq |-> path, temp |-> path, infer |-> calls]
    IN IF v = "no_file"
       THEN [result |-> HTTPException(400, NoFileDetail, ""),
             fs |-> files, seq |-> seq, temp |-> 0, infer |-> 0]
       ELSE IF v = "unsupported"
       THEN [result |-> HTTPException(400, UnsupportedDetail, ""),
             fs |-> files, seq |-> seq, temp |-> 0, infer |-> 0]
       ELSE IF file.fault = "mktemp"
       \* tempfile.NamedTemporaryFile raises: nothing was created
       THEN [result |-> HTTPException(500, ErrorDetail, "mktemp"),
             fs |-> files, seq |-> seq, temp |-> 0, infer |-> 0]
       ELSE IF file.fault \in {"read", "write"}
       \* await file.read() or temp_file.write(content) raises inside the
       \* with block, before temp_file_path = temp_file.name
       THEN failed(file.fault, FALSE, 0)
       ELSE IF file.fault \in {"transcribe", "segments"}
       \* model.transcribe raises, or the iteration of its segments does
       THEN failed(file.fault, TRUE, 1)
       ELSE IF ~ file.unlinkOk
       \* os.unlink(temp_file_path) raises after the segments were read
       THEN failed("unlink", TRUE, 1)
       ELSE [result |-> TranscriptionResponse(file.segments, word_timestamps),
             fs |-> made \ {path}, seq |-> path, temp |-> path, infer |-> 1]

(***************************************************************************)
(* The uploads of the model.                                               *)
(***************************************************************************)
Filenames ==
    { <<>>,
      <<"a", ".", "m", "p", "3">>,
      <<"a", ".", "M", "P", "3">>,
      <<"a", ".", "M", "p", "3">>,
      <<"a", ".", "w", "a", "v">>,
      <<"a", ".", "W", "A", "V">>,
      <<"a", ".", "m", "4", "a">>,
      <<"a", ".", "M", "4", "A">>,
      <<"a", ".", "o", "g", "g">>,
      <<"a", ".", "O", "g", "g">>,
      <<"a", ".", "f", "l", "a", "c">>,
      <<"a", ".", "F", "L", "A", "C">>,
      <<"a", ".", "a", "a", "c">>,
      <<"a", ".", "A", "A", "C">>,
      <<"a", ".", "t", "x", "t">>,
      <<"a">>,
      <<"a", ".">>,
      <<".", "m", "p", "3">>,
      <<".", ".", "w", "a", "v">>,
      <<"a", ".", "m", "p", "3", ".", "t", "x", "t">>,
      <<"a", ".", "t", "x", "t", ".", "m", "p", "3">>,
      <<"d", ".", "m", "p", "3", "/", "a">>,
      <<"d", "/", "a", ".", "w", "a", "v">>,
      <<"d", "/", ".", "o", "g", "g">>,
      <<"a", ".", "m", "p">>,
      <<"a", ".", "m", "p", "3", "x">>,
      <<"a", "m", "p", "3">>,
      <<"a", ".", "b", ".", "F", "l", "a", "C">> }

Faults == {"none", "mktemp", "read", "write", "transcribe", "segments"}

\* payload sizes in bytes: the configured maximum, and one byte more
Sizes == {MAX_FILE_SIZE, MAX_FILE_SIZE + 1}

\* what the engine finds in an upload: segments with their word timing
Word(t) == [start |-> 0, end |-> 1, word |-> t, probability |-> 1]
SegmentLists ==
    { <<>>,
      << [start |-> 0, end |-> 1, text |-> <<" ", "a">>,
          words |-> <<Word(<<" ", "a">>)>>],
         [start |-> 1, end |-> 2, text |-> <<" ", "b", " ">>,
          words |-> <<Word(<<" ", "b">>)>>] >> }

\* the names every combination of the other fields is tried with
CoreFilenames ==
    { <<>>,
      <<"a", ".", "m", "p", "3">>,
      <<"a", ".", "t", "x", "t">> }

Uploads ==
    { u \in [filename : Filenames, size : Sizes, fault : Faults,
             unlinkOk : BOOLEAN, segments : SegmentLists] :
        \/ u.filename \in CoreFilenames
        \/ /\ u.size = MAX_FILE_SIZE
           /\ u.fault = "none"
           /\ u.unlinkOk
           /\ u.segments # <<>> }

\* the files a batch is made of: a good one, one the engine fails on, one
\* with a refused extension, one without a name
BatchUploads ==
    { u \in Uploads :
        /\ u.size = MAX_FILE_SIZE
        /\ u.unlinkOk
        /\ u.segments # <<>>
        /\ \/ /\ u.filename = <<"a", ".", "m", "p", "3">>
              /\ u.fault \in {"none", "transcribe"}
           \/ /\ u.filename \in {<<>>, <<"a", ".", "t", "x", "t">>}
              /\ u.fault = "none" }

Batches == UNION { [1..n -> BatchUploads] : n \in 0..MaxBatch }

PipeUnchanged == UNCHANGED <<pipeVars, bootVars, apiVars>>

\* no POST /transcribe, no POST /transcribe-batch was the last request
NoRequest ==
    [file |-> [filename |-> <<>>, size |-> 0, fault |-> "none",
               unlinkOk |-> TRUE, segments |-> <<>>],
     word_timestamps |-> FALSE, result |-> [status |-> 0], temp |-> 0,
     infer |-> 0, before |-> {}]
NoBatch == [status |-> 0, results |-> <<>>]

\* POST /transcribe with one upload and its word_timestamps parameter
Transcribe ==
    /\ up_pc = "idle"
    /\ served < MaxRequests
    /\ \E file \in Uploads, word_timestamps \in BOOLEAN :
         LET r == TranscribeAudio(file, word_timestamps, up_fs, up_seq)
         IN /\ req' = [file |-> file, word_timestamps |-> word_timestamps,
                       result |-> r.result, temp |-> r.temp,
                       infer |-> r.infer, before |-> up_fs]
            /\ up_fs' = r.fs
            /\ up_seq' = r.seq
    /\ served' = served + 1
    /\ batch_files' = <<>>
    /\ batch_results' = <<>>
    /\ batch_resp' = NoBatch
    /\ UNCHANGED up_pc
    /\ PipeUnchanged

\* POST /transcribe-batch: results = []
BatchStart ==
    /\ up_pc = "idle"
    /\ served < MaxRequests
    /\ \E files \in Batches : batch_files' = files
    /\ batch_results' = <<>>
    /\ batch_resp' = NoBatch
    /\ req' = NoRequest
    /\ served' = served + 1
    /\ up_pc' = "batch"
    /\ UNCHANGED <<up_fs, up_seq>>
    /\ PipeUnchanged

\* a slip: a clause that does not catch HTTPException
BatchCatchesNothing(result) == FALSE

\* except Exception as e: every exception transcribe_audio raises is an
\* HTTPException, which this clause catches
BatchCatches(result) == result.status # 200

\* for file in files: try: result = await transcribe_audio(file);
\* results.append({... "success": True ...}) except Exception as e:
\* results.append({... "success": False, "error": str(e)})
BatchStep ==
    /\ up_pc = "batch"
    /\ Len(batch_results) < Len(batch_files)
    /\ LET file == batch_files[Len(batch_results) + 1]
           r == TranscribeAudio(file, FALSE, up_fs, up_seq)
       IN /\ up_fs' = r.fs
          /\ up_seq' = r.seq
          /\ IF r.result.status = 200
             THEN /\ batch_results' =
                        Append(batch_results,
                               [filename |-> file.filename, success |-> TRUE,
                                transcription |-> r.result])
                  /\ UNCHANGED <<up_pc, batch_resp>>
             ELSE IF BatchCatches(r.result)
             THEN /\ batch_results' =
                        Append(batch_results,
                               [filename |-> file.filename, success |-> FALSE,
                                error |-> r.result])
                  /\ UNCHANGED <<up_pc, batch_resp>>
             ELSE \* the exception leaves transcribe_batch
                  /\ batch_resp' = [status |-> r.result.status,
                                    results |-> <<>>]
                  /\ up_pc' = "idle"
                  /\ UNCHANGED batch_results
    /\ UNCHANGED <<served, req, batch_files>>
    /\ PipeUnchanged

\* return {"results": results}
BatchReturn ==
    /\ up_pc = "batch"
    /\ Len(batch_results) = Len(batch_files)
    /\ batch_resp' = [status |-> 200, results |-> batch_results]
    /\ up_pc' = "idle"
    /\ UNCHANGED <<up_fs, up_seq, served, req, batch_files, batch_results>>
    /\ PipeUnchanged

(***************************************************************************)
(* Start-up: src/config.py, the module level of src/main.py and main() of  *)
(* src/realtime_transcription.py.                                          *)
(***************************************************************************)
development == <<"d", "e", "v", "e", "l", "o", "p", "m", "e", "n", "t">>
production == <<"p", "r", "o", "d", "u", "c", "t", "i", "o", "n">>
test == <<"t", "e", "s", "t">>

\* What the process environment can hold: ENVIRONMENT (absent: development)
\* and the four variables read into the attributes that validate_config
\* checks (absent: "base", "cpu", "int8", "16").
EnvironmentNames ==
    { development, production, test,
      <<"P", "r", "o", "d", "u", "c", "t", "i", "o", "n">>,
      <<"T", "E", "S", "T">>,
      <<"s", "t", "a", "g", "e">> }
ModelNames == {"base", "distil-large-v3", "large"}
DeviceNames == {"cpu", "cuda", "gpu"}
ComputeTypeNames == {"int8", "float32", "int4"}
ThreadCounts == {0, 1, 16, 32, 33}
Environments ==
    [ENVIRONMENT : EnvironmentNames, WHISPER_MODEL : ModelNames,
     WHISPER_DEVICE : DeviceNames, WHISPER_COMPUTE_TYPE : ComputeTypeNames,
     OMP_NUM_THREADS : ThreadCounts]

\* the environment with none of the variables set
DefaultEnvironment ==
    [ENVIRONMENT |-> development, WHISPER_MODEL |-> "base",
     WHISPER_DEVICE |-> "cpu", WHISPER_COMPUTE_TYPE |-> "int8",
     OMP_NUM_THREADS |-> 16]

\* class Config: the attributes validate_config reads, from os.getenv
Config(env) ==
    [WHISPER_MODEL |-> env.WHISPER_MODEL,
     WHISPER_DEVICE |-> env.WHISPER_DEVICE,
     WHISPER_COMPUTE_TYPE |-> env.WHISPER_COMPUTE_TYPE,
     OMP_NUM_THREADS |-> env.OMP_NUM_THREADS]

\* class ProductionConfig(Config): OMP_NUM_THREADS: int = 2
ProductionConfig(env) == [Config(env) EXCEPT !.OMP_NUM_THREADS = 2]

\* class TestConfig(Config): WHISPER_MODEL: str = "tiny"
TestConfig(env) == [Config(env) EXCEPT !.WHISPER_MODEL = "tiny"]

\* class DevelopmentConfig(Config) overrides none of the four
DevelopmentConfig(env) == Config(env)

\* get_config(): env = os.getenv("ENVIRONMENT", "development").lower()
get_config(env) ==
    IF Lower(env.ENVIRONMENT) = production THEN ProductionConfig(env)
    ELSE IF Lower(env.ENVIRONMENT) = test THEN TestConfig(env)
    ELSE DevelopmentConfig(env)

valid_models ==
    {"tiny", "base", "small", "medium", "large-v3", "distil-large-v3"}
valid_devices == {"cpu", "cuda"}
valid_compute_types == {"int8", "int16", "float16", "float32"}

\* a slip: only the upper limit of the thread count is checked
ValidateConfigUpperOnly(c) ==
    LET issues ==
            (IF c.WHISPER_MODEL \notin valid_models
             THEN <<"model">> ELSE <<>>)
            \o (IF c.WHISPER_DEVICE \notin valid_devices
                THEN <<"device">> ELSE <<>>)
            \o (IF c.WHISPER_COMPUTE_TYPE \notin valid_compute_types
                THEN <<"compute_type">> ELSE <<>>)
            \o (IF c.OMP_NUM_THREADS > 32 THEN <<"threads">> ELSE <<>>)
    IN [valid |-> Len(issues) = 0, issues |-> issues]

\* Config.validate_config: issues = []; four checks, each appending its
\* issue; return {"valid": len(issues) == 0, "issues": issues}
validate_config(c) ==
    LET issues ==
            (IF c.WHISPER_MODEL \notin valid_models
             THEN <<"model">> ELSE <<>>)
            \o (IF c.WHISPER_DEVICE \notin valid_devices
                THEN <<"device">> ELSE <<>>)
            \o (IF c.WHISPER_COMPUTE_TYPE \notin valid_compute_types
                THEN <<"compute_type">> ELSE <<>>)
            \o (IF c.OMP_NUM_THREADS < 1 \/ c.OMP_NUM_THREADS > 32
                THEN <<"threads">> ELSE <<>>)
    IN [valid |-> Len(issues) = 0, issues |-> issues]

\* validation before config.validate_config() has been called
NotValidated == [valid |-> FALSE, issues |-> <<"not validated">>]

BootUnchanged == UNCHANGED <<pipeVars, upVars, apiVars>>

\* validation = config.validate_config()
BootValidate ==
    /\ boot_pc = "start"
    /\ validation' = validate_config(cfg)
    /\ boot_pc' = "validated"
    /\ UNCHANGED <<cfg, program, model_loaded>>
    /\ BootUnchanged

\* if not validation["valid"]: log the issues; raise SystemExit(1) in
\* main.py, return in main() of realtime_transcription.py
BootAbort ==
    /\ boot_pc = "validated"
    /\ ~ validation.valid
    /\ boot_pc' = "aborted"
    /\ UNCHANGED <<cfg, program, validation, model_loaded>>
    /\ BootUnchanged

\* model = WhisperModel(...) in main.py; RealTimeTranscriber() in main(),
\* whose __init__ constructs the WhisperModel. The constructor can raise.
BootLoadModel ==
    /\ boot_pc = "validated"
    /\ validation.valid
    /\ \E ok \in BOOLEAN :
         /\ model_loaded' = ok
         /\ boot_pc' = IF ok THEN "loaded" ELSE "load_failed"
    /\ UNCHANGED <<cfg, program, validation>>
    /\ BootUnchanged

\* the rest of main.py is imported and uvicorn serves requests;
\* transcriber.run() starts the capture
BootRun ==
    /\ boot_pc = "loaded"
    /\ boot_pc' = "running"
    /\ UNCHANGED <<cfg, program, validation, model_loaded>>
    /\ BootUnchanged

(***************************************************************************)
(* One RealTimeTranscriber driven by a caller that calls start_recording   *)
(* and stop_recording in any order and keeps its process running. Each     *)
(* start_recording that gets past audio.open makes a capture thread and a  *)
(* worker thread: rec_threads[i] and tr_threads[i] are the threads of the  *)
(* i-th such call. The capture of one chunk (frames_per_chunk iterations   *)
(* of the loop of _record_audio, the other threads not moving meanwhile)   *)
(* is one step here; Spec has the loop frame by frame. The engine and the  *)
(* file system work unless a file is missing.                              *)
(***************************************************************************)
ApiUnchanged ==
    UNCHANGED <<main_pc, rec_pc, frames, chunk_count, frames_per_chunk,
                data, tr_pc, cur, temp_filename, rec_end, procLog, output,
                upVars, bootVars>>

\* the record of a call and whether it raised
Call(name, raised) == [call |-> name, raised |-> raised]

\* the capture threads and the workers that have not ended
RecAlive == {i \in 1..Len(rec_threads) : rec_threads[i] \in {"start", "loop"}}
TrAlive ==
    {i \in 1..Len(tr_threads) : tr_threads[i].pc \notin {"done", "crashed"}}

\* start_recording(): self.stream = self.audio.open(...);
\* self.is_recording = True; both threads are created and started
ApiStartRecording ==
    /\ api_pc = "idle"
    /\ Len(api_log) < MaxCalls
    /\ audio = "ready"
    /\ stream' = "open"
    /\ streams_open' = streams_open + 1
    /\ is_recording' = TRUE
    /\ rec_threads' = Append(rec_threads, "start")
    /\ tr_threads' =
           Append(tr_threads,
                  [pc |-> "start", cur |-> <<>>, temp_filename |-> -1,
                   submitted |-> <<>>])
    /\ api_log' = Append(api_log, Call("start", FALSE))
    /\ UNCHANGED <<api_pc, is_transcribing, audio, audio_queue, fs, now,
                   reads, putLog>>
    /\ ApiUnchanged

\* start_recording(): self.audio.open raises (no device, and always once
\* self.audio has been terminated): the error is logged and raised again
ApiStartRecordingFails ==
    /\ api_pc = "idle"
    /\ Len(api_log) < MaxCalls
    /\ api_log' = Append(api_log, Call("start", TRUE))
    /\ UNCHANGED <<api_pc, rec_threads, tr_threads, streams_open,
                   is_recording, is_transcribing, stream, audio,
                   audio_queue, fs, now, reads, putLog>>
    /\ ApiUnchanged

\* stop_recording(): self.is_recording = False
ApiStopRecordingFlag ==
    /\ api_pc = "idle"
    /\ Len(api_log) < MaxCalls
    /\ is_recording' = FALSE
    /\ api_pc' = "stop_b"
    /\ UNCHANGED <<api_log, rec_threads, tr_threads, streams_open,
                   is_transcribing, stream, audio, audio_queue, fs, now,
                   reads, putLog>>
    /\ ApiUnchanged

\* stop_recording(): self.is_transcribing = False
ApiStopTranscribingFlag ==
    /\ api_pc = "stop_b"
    /\ is_transcribing' = FALSE
    /\ api_pc' = "stop_c"
    /\ UNCHANGED <<api_log, rec_threads, tr_threads, streams_open,
                   is_recording, stream, audio, audio_queue, fs, now,
                   reads, putLog>>
    /\ ApiUnchanged

\* a slip: the stream is used whether or not the attribute exists
HasStreamAlways(s) == TRUE

\* hasattr(self, 'stream')
HasStream(s) == s # "none"

\* stop_recording(): if hasattr(self, 'stream'): self.stream.stop_stream();
\* self.stream.close(). Then self.audio.terminate(), which closes every
\* stream of self.audio still open. Without the attribute self.stream
\* raises AttributeError; what stop_stream and close do on a stream that is
\* closed already is left open (returns or raises).
ApiStopClose ==
    /\ api_pc = "stop_c"
    /\ api_pc' = "idle"
    /\ \E closedRaises \in BOOLEAN :
         LET raised == /\ HasStream(stream)
                       /\ \/ stream = "none"
                          \/ stream = "closed" /\ closedRaises
         IN /\ api_log' = Append(api_log, Call("stop", raised))
            /\ IF raised
               THEN UNCHANGED <<stream, audio, streams_open>>
               ELSE /\ stream' = IF HasStream(stream) THEN "closed"
                                                      ELSE stream
                    /\ audio' = "terminated"
                    /\ streams_open' = 0
    /\ UNCHANGED <<rec_threads, tr_threads, is_recording, is_transcribing,
                   audio_queue, fs, now, reads, putLog>>
    /\ ApiUnchanged

\* _record_audio of thread i: frames = [], chunk_count = 0, frames_per_chunk
ApiRecordBegin(i) ==
    /\ i \in DOMAIN rec_threads
    /\ rec_threads[i] = "start"
    /\ rec_threads' = [rec_threads EXCEPT ![i] = "loop"]
    /\ UNCHANGED <<api_pc, api_log, tr_threads, streams_open, is_recording,
                   is_transcribing, stream, audio, audio_queue, fs, now,
                   reads, putLog>>
    /\ ApiUnchanged

\* _record_audio of thread i: frames_per_chunk iterations with
\* is_recording true, each reading one frame from self.stream; the last
\* one puts the chunk and clears the accumulator
ApiRecordChunk(i) ==
    /\ i \in DOMAIN rec_threads
    /\ rec_threads[i] = "loop"
    /\ is_recording
    /\ stream = "open"
    /\ Len(putLog) < MaxChunks
    /\ LET n == FramesPerChunk(RATE, CHUNK, RECORD_SECONDS)
           chunk == [j \in 1..n |-> reads + j]
       IN /\ ChunkComplete(n, n)
          /\ audio_queue' = Append(audio_queue, chunk)
          /\ putLog' = Append(putLog, chunk)
          /\ reads' = reads + n
    /\ UNCHANGED <<api_pc, api_log, rec_threads, tr_threads, streams_open,
                   is_recording, is_transcribing, stream, audio, fs, now>>
    /\ ApiUnchanged

\* _record_audio of thread i: the while test finds is_recording false, or
\* self.stream.read raises (device error, closed stream): the loop ends
\* and what the accumulator holds is dropped
ApiRecordEnd(i) ==
    /\ i \in DOMAIN rec_threads
    /\ rec_threads[i] = "loop"
    /\ rec_threads' = [rec_threads EXCEPT ![i] = "done"]
    /\ UNCHANGED <<api_pc, api_log, tr_threads, streams_open, is_recording,
                   is_transcribing, stream, audio, audio_queue, fs, now,
                   reads, putLog>>
    /\ ApiUnchanged

\* what a step of worker i leaves alone besides its own record
ApiWorkerUnchanged ==
    /\ UNCHANGED <<api_pc, api_log, rec_threads, streams_open, is_recording,
                   stream, audio, now, reads, putLog>>
    /\ ApiUnchanged

\* _transcribe_audio of thread i: self.is_transcribing = True
ApiTranscribeInit(i) ==
    /\ i \in DOMAIN tr_threads
    /\ tr_threads[i].pc = "start"
    /\ is_transcribing' = TRUE
    /\ tr_threads' = [tr_threads EXCEPT ![i].pc = "loop"]
    /\ UNCHANGED <<audio_queue, fs>>
    /\ ApiWorkerUnchanged

\* while self.is_transcribing or not self.audio_queue.empty()
ApiTranscribeLoop(i) ==
    /\ i \in DOMAIN tr_threads
    /\ tr_threads[i].pc = "loop"
    /\ tr_threads' =
           [tr_threads EXCEPT ![i].pc =
               IF WorkerContinues(is_transcribing, audio_queue)
               THEN "get" ELSE "done"]
    /\ UNCHANGED <<is_transcribing, audio_queue, fs>>
    /\ ApiWorkerUnchanged

\* a slip: the worker takes the oldest chunk and leaves it on the queue
ApiTranscribeGetPeeks(i) ==
    /\ i \in DOMAIN tr_threads
    /\ tr_threads[i].pc = "get"
    /\ audio_queue # <<>>
    /\ tr_threads' = [tr_threads EXCEPT ![i].pc = "write",
                                        ![i].cur = Head(audio_queue)]
    /\ UNCHANGED <<is_transcribing, audio_queue, fs>>
    /\ ApiWorkerUnchanged

\* frames = self.audio_queue.get(timeout=1)
ApiTranscribeGet(i) ==
    /\ i \in DOMAIN tr_threads
    /\ tr_threads[i].pc = "get"
    /\ audio_queue # <<>>
    /\ audio_queue' = Tail(audio_queue)
    /\ tr_threads' = [tr_threads EXCEPT ![i].pc = "write",
                                        ![i].cur = Head(audio_queue)]
    /\ UNCHANGED <<is_transcribing, fs>>
    /\ ApiWorkerUnchanged

\* except queue.Empty: continue
ApiTranscribeGetTimeout(i) ==
    /\ i \in DOMAIN tr_threads
    /\ tr_threads[i].pc = "get"
    /\ audio_queue = <<>>
    /\ tr_threads' = [tr_threads EXCEPT ![i].pc = "loop"]
    /\ UNCHANGED <<is_transcribing, audio_queue, fs>>
    /\ ApiWorkerUnchanged

\* temp_filename = f"temp_chunk_{int(time.time())}.wav"; wave.open(
\* temp_filename, 'wb') creates the file, or truncates the one of that name
ApiTranscribeWrite(i) ==
    /\ i \in DOMAIN tr_threads
    /\ tr_threads[i].pc = "write"
    /\ tr_threads' = [tr_threads EXCEPT ![i].pc = "transcribe",
                                        ![i].temp_filename =
                                            TempChunkName(now)]
    /\ fs' = fs \cup {TempChunkName(now)}
    /\ UNCHANGED <<is_transcribing, audio_queue>>
    /\ ApiWorkerUnchanged

\* model.transcribe(temp_filename, ...), the segments, the print and
\* os.remove(temp_filename). With the file gone model.transcribe or
\* os.remove raises and the handler finds nothing to remove; the engine
\* can raise on a file that is there, and then the handler removes it.
ApiTranscribeInfer(i) ==
    /\ i \in DOMAIN tr_threads
    /\ tr_threads[i].pc = "transcribe"
    /\ LET name == tr_threads[i].temp_filename
       IN \E raises \in BOOLEAN :
            IF name \in fs /\ ~ raises
            THEN /\ fs' = fs \ {name}
                 /\ tr_threads' =
                        [tr_threads EXCEPT ![i].pc = "loop",
                                           ![i].submitted =
                                               Append(@, tr_threads[i].cur)]
            ELSE LET h == ExceptHandler(fs, name, TRUE)
                 IN /\ fs' = h.fs
                    /\ tr_threads' =
                           [tr_threads EXCEPT ![i].pc =
                               IF h.raised THEN "crashed" ELSE "loop",
                                              ![i].submitted =
                                               Append(@, tr_threads[i].cur)]
    /\ UNCHANGED <<is_transcribing, audio_queue>>
    /\ ApiWorkerUnchanged

\* RealTimeTranscriber.__init__ before any method is called, and the
\* upload service before its first request
Constructed ==
    /\ main_pc = "init"
    /\ is_recording = FALSE
    /\ is_transcribing = FALSE
    /\ stream = "none"
    /\ audio = "ready"
    /\ audio_queue = <<>>
    /\ rec_pc = "unborn"
    /\ frames = <<>>
    /\ chunk_count = 0
    /\ frames_per_chunk = 0
    /\ data = 0
    /\ tr_pc = "unborn"
    /\ cur = <<>>
    /\ temp_filename = -1
    /\ fs = {}
    /\ now = 0
    /\ reads = 0
    /\ rec_end = ""
    /\ putLog = <<>>
    /\ procLog = <<>>
    /\ output = <<>>
    /\ up_pc = "idle"
    /\ up_fs = {}
    /\ up_seq = 0
    /\ served = 0
    /\ req = NoRequest
    /\ batch_files = <<>>
    /\ batch_results = <<>>
    /\ batch_resp = NoBatch
    /\ api_pc = "idle"
    /\ api_log = <<>>
    /\ rec_threads = <<>>
    /\ tr_threads = <<>>
    /\ streams_open = 0

\* start-up has gone through for program e, with no variable set in the
\* environment
Started(e) ==
    /\ program = e
    /\ cfg = get_config(DefaultEnvironment)
    /\ validation = validate_config(cfg)
    /\ model_loaded = TRUE
    /\ boot_pc = "running"

\* python realtime_transcription.py has constructed its transcriber
Init == Constructed /\ Started("cli")

\* main.py has been imported
InitUpload == Constructed /\ Started("api")

\* either program is launched, in any environment
InitStartup ==
    /\ Constructed
    /\ program \in {"api", "cli"}
    /\ \E env \in Environments : cfg = get_config(env)
    /\ validation = NotValidated
    /\ model_loaded = FALSE
    /\ boot_pc = "start"

Next ==
    \/ StartRecording
    \/ StartRecordingFails
    \/ KeyboardInterrupt
    \/ StopRecordingFlag
    \/ StopTranscribingFlag
    \/ StopRecordingClose
    \/ ProcessExit
    \/ Tick
    \/ RecordBegin
    \/ RecordLoop
    \/ RecordRead
    \/ RecordReadError
    \/ RecordAppend
    \/ TranscribeInit
    \/ TranscribeLoop
    \/ TranscribeGet
    \/ TranscribeGetTimeout
    \/ TranscribeWrite
    \/ TranscribeInfer

Spec == Init /\ [][Next]_vars

NextUpload ==
    \/ Transcribe
    \/ BatchStart
    \/ BatchStep
    \/ BatchReturn

SpecUpload == InitUpload /\ [][NextUpload]_vars

NextStartup ==
    \/ BootValidate
    \/ BootAbort
    \/ BootLoadModel
    \/ BootRun

SpecStartup == InitStartup /\ [][NextStartup]_vars

\* the threads a caller can have made with MaxCalls calls
ThreadIds == 1..MaxCalls

NextApi ==
    \/ ApiStartRecording
    \/ ApiStartRecordingFails
    \/ ApiStopRecordingFlag
    \/ ApiStopTranscribingFlag
    \/ ApiStopClose
    \/ Tick
    \/ \E i \in ThreadIds : ApiRecordBegin(i)
    \/ \E i \in ThreadIds : ApiRecordChunk(i)
    \/ \E i \in ThreadIds : ApiRecordEnd(i)
    \/ \E i \in ThreadIds : ApiTranscribeInit(i)
    \/ \E i \in ThreadIds : ApiTranscribeLoop(i)
    \/ \E i \in ThreadIds : ApiTranscribeGet(i)
    \/ \E i \in ThreadIds : ApiTranscribeGetTimeout(i)
    \/ \E i \in ThreadIds : ApiTranscribeWrite(i)
    \/ \E i \in ThreadIds : ApiTranscribeInfer(i)

SpecApi == Init /\ [][NextApi]_vars

\* SpecApi with every thread scheduled again and again and stop_recording,
\* once called, running to its end; the caller is free to make no call
ApiFairness ==
    /\ WF_vars(ApiStopTranscribingFlag)
    /\ WF_vars(ApiStopClose)
    /\ \A i \in ThreadIds :
         /\ WF_vars(ApiRecordBegin(i))
         /\ WF_vars(ApiRecordEnd(i))
         /\ WF_vars(ApiTranscribeInit(i))
         /\ WF_vars(ApiTranscribeLoop(i))
         /\ WF_vars(ApiTranscribeGet(i))
         /\ WF_vars(ApiTranscribeGetTimeout(i))
         /\ WF_vars(ApiTranscribeWrite(i))
         /\ WF_vars(ApiTranscribeInfer(i))

SpecApiFair == SpecApi /\ ApiFairness

(***************************************************************************)
(* Claims about the live pipeline, checked under Spec.                     *)
(***************************************************************************)
\* stop_recording has been called
StopCalled == main_pc \in {"stop_a", "stop_b", "stop_c", "stopped", "exited"}

\* stop_recording has returned
StopReturned == main_pc \in {"stopped", "exited"}

\* the worker's loop has ended, or the exit of the process abandoned it
WorkerGone == tr_pc \in {"done", "killed"}

(* C1: once stop_recording has been called, the worker is never gone       *)
(* (its loop ended, or the thread abandoned) while a chunk is still on     *)
(* audio_queue: every chunk that entered the queue is dequeued.            *)
C1_QueueDrainedWhenWorkerGone ==
    (StopCalled /\ WorkerGone) => audio_queue = <<>>

\* the records of the chunks whose iteration has ended
Finished(log) == SelectSeq(log, LAMBDA r : r.outcome # "pending")

\* every iteration so far took one of the two paths of the claim: it
\* succeeded, or model.transcribe (or its segments) raised and the handler
\* ran through
OnlyClaimedPaths(log) ==
    \A i \in 1..Len(log) :
        log[i].outcome \in {"ok", "infer_error"} /\ ~ log[i].handler_raised

(* C2: on the success path and on the path where inference raises, each    *)
(* chunk dequeued has exactly one temp file created, which is deleted      *)
(* before the worker's next queue pop: no temp chunk file exists while the *)
(* worker is at its loop test, waiting on the queue or after its loop      *)
(* ended, and only the current chunk's file exists during inference.       *)
C2_ChunkFileCreatedAndDeleted ==
    OnlyClaimedPaths(Finished(procLog)) =>
        /\ \A i \in 1..Len(Finished(procLog)) :
               Finished(procLog)[i].created = 1
        /\ tr_pc \in {"loop", "get", "write", "done"} => fs = {}
        /\ tr_pc = "transcribe" =>
               /\ fs = {temp_filename}
               /\ procLog[Len(procLog)].created = 1

C2_Witness ==
    /\ tr_pc = "get"
    /\ Len(procLog) = 2
    /\ procLog[1].outcome = "infer_error"
    /\ procLog[2].outcome = "ok"
    /\ ~ procLog[1].handler_raised
    /\ fs = {}

\* the i-th chunk of n frames in capture order
ExpectedChunk(i, n) == [j \in 1..n |-> (i - 1) * n + j]

(* C8: when the capture loop has read and handled N frames and N is an     *)
(* exact multiple of frames_per_chunk, exactly N / frames_per_chunk chunks *)
(* have been put, each with frames_per_chunk frames in capture order, and  *)
(* the accumulator is empty.                                               *)
C8_ExactMultipleGivesFullChunks ==
    (frames_per_chunk > 0 /\ data = 0 /\ reads % frames_per_chunk = 0) =>
        /\ Len(putLog) = reads \div frames_per_chunk
        /\ \A i \in 1..Len(putLog) :
               putLog[i] = ExpectedChunk(i, frames_per_chunk)
        /\ frames = <<>>
        /\ chunk_count = 0

C8_Witness ==
    /\ frames_per_chunk > 0
    /\ data = 0
    /\ reads = 2 * frames_per_chunk
    /\ Len(putLog) = 2

\* the capture loop is running or has ended
CaptureRan == rec_pc \in {"loop", "read", "append", "done"}

(* C9, as stated: frames_per_chunk is ceil(RATE / CHUNK * RECORD_SECONDS), *)
(* 47 for the configured values, so that every chunk put covers at least   *)
(* RECORD_SECONDS of audio.                                                *)
C9_FramesPerChunkIsCeiling ==
    /\ CaptureRan =>
           /\ (frames_per_chunk - 1) * CHUNK < RATE * RECORD_SECONDS
           /\ frames_per_chunk * CHUNK >= RATE * RECORD_SECONDS
           /\ frames_per_chunk = 47
    /\ \A i \in 1..Len(putLog) :
           Len(putLog[i]) * CHUNK >= RATE * RECORD_SECONDS

(* C9, amended: frames_per_chunk is floor(RATE / CHUNK * RECORD_SECONDS),  *)
(* 46 for the configured values: a chunk is put when the count reaches 46, *)
(* and every chunk put covers less than RECORD_SECONDS of audio.           *)
C9_FramesPerChunkIsFloor ==
    /\ CaptureRan =>
           /\ frames_per_chunk * CHUNK <= RATE * RECORD_SECONDS
           /\ (frames_per_chunk + 1) * CHUNK > RATE * RECORD_SECONDS
           /\ frames_per_chunk = 46
    /\ \A i \in 1..Len(putLog) :
           /\ Len(putLog[i]) = 46
           /\ Len(putLog[i]) * CHUNK < RATE * RECORD_SECONDS

C9_Witness == CaptureRan /\ Len(putLog) >= 1

(* C10: once stop_recording has returned, stream.read returns no further   *)
(* frame and no further chunk is put on audio_queue.                       *)
C10_NothingCapturedAfterStop ==
    [][StopReturned => (reads' = reads /\ putLog' = putLog)]_vars

(***************************************************************************)
(* Claims about the upload service, checked under SpecUpload.              *)
(***************************************************************************)
\* the last request was a POST /transcribe, and it has been answered
Answered == req.result.status # 0

(* C3: once validation has passed, the temporary file created for the      *)
(* request no longer exists when transcribe_audio returns or raises, on    *)
(* every exit path (os.unlink itself working).                             *)
C3_TempFileGoneOnEveryExit ==
    (Answered /\ req.temp # 0 /\ req.file.unlinkOk) =>
        /\ req.temp \notin up_fs
        /\ up_fs = req.before

\* transcribe_audio(file) on its own, on a service with no temporary file
Alone(file) == TranscribeAudio(file, FALSE, {}, 0).result

\* entry i of results reports file i as processing it alone would
EntryMatches(entry, file) ==
    /\ entry.filename = file.filename
    /\ entry.success = (Alone(file).status = 200)
    /\ entry.success => entry.transcription = Alone(file)
    /\ ~ entry.success => entry.error = Alone(file)

(* C4: transcribe_batch with N files returns N entries in input order,     *)
(* entry i with success=true and the transcription exactly when file i     *)
(* alone succeeds, with success=false and the error otherwise; no file's   *)
(* failure ends the batch or keeps another file from being processed.      *)
C4_BatchIsolatesFailures ==
    /\ batch_resp.status \in {0, 200}
    /\ Len(batch_results) <= Len(batch_files)
    /\ \A i \in 1..Len(batch_results) :
           EntryMatches(batch_results[i], batch_files[i])
    /\ batch_resp.status = 200 =>
           /\ batch_resp.results = batch_results
           /\ Len(batch_resp.results) = Len(batch_files)

C4_Witness ==
    /\ batch_resp.status = 200
    /\ Len(batch_resp.results) = 3
    /\ batch_resp.results[1].success
    /\ ~ batch_resp.results[2].success
    /\ batch_resp.results[2].error.cause = "transcribe"
    /\ batch_resp.results[3].success

\* the name ends, in any letter case, with one of the six extensions, and
\* the last path component has a character other than a dot before it
HasAllowedExtension(name) ==
    \E i \in 1..Len(allowed_extensions) :
        LET e == allowed_extensions[i]
            n == Len(name) - Len(e)
        IN /\ n >= 1
           /\ Lower(SubSeq(name, n + 1, Len(name))) = e
           /\ \E k \in 1..n :
                  /\ name[k] \notin {".", "/"}
                  /\ \A j \in k..n : name[j] # "/"

(* C5: a named upload whose extension, in any letter case, is not one of   *)
(* .mp3 .wav .m4a .ogg .flac .aac (or that has no extension) is refused    *)
(* with the unsupported-format 400 before a temporary file is created or   *)
(* the engine called; one whose extension is in the list, in any letter    *)
(* case, is not refused by this check.                                     *)
C5_ExtensionCheck ==
    (Answered /\ req.file.filename # <<>>) =>
        IF HasAllowedExtension(req.file.filename)
        THEN req.result.status # 400
        ELSE /\ req.result = HTTPException(400, UnsupportedDetail, "")
             /\ req.temp = 0
             /\ req.infer = 0
             /\ up_fs = req.before

C5_Witness ==
    /\ Answered
    /\ req.file.filename = <<".", "m", "p", "3">>
    /\ req.file.fault = "none"
    /\ req.result.detail = UnsupportedDetail

(* C6: an upload with an empty filename is refused with the "no file" 400, *)
(* not with the unsupported-format error of the later extension check,     *)
(* before a temporary file is created or the engine called.                *)
C6_EmptyFilenameRejectedFirst ==
    /\ (Answered /\ req.file.filename = <<>>) =>
           /\ req.result = HTTPException(400, NoFileDetail, "")
           /\ req.temp = 0
           /\ req.infer = 0
           /\ up_fs = req.before
    /\ \A i \in 1..Len(batch_results) :
           batch_results[i].filename = <<>> =>
               /\ ~ batch_results[i].success
               /\ batch_results[i].error.detail = NoFileDetail

C6_Witness ==
    /\ Answered
    /\ req.file.filename = <<>>
    /\ req.file.size > MAX_FILE_SIZE
    /\ req.result.detail = NoFileDetail

(* C7: an upload larger than config.MAX_FILE_SIZE is refused with a        *)
(* validation error (400): no temporary file is written for it and the     *)
(* engine is not called.                                                   *)
C7_OversizeRejected ==
    (Answered /\ req.file.size > MAX_FILE_SIZE) =>
        /\ req.result.status = 400
        /\ req.temp = 0
        /\ req.infer = 0

(***************************************************************************)
(* Claims about failures in the live pipeline, checked under Spec.         *)
(***************************************************************************)
(* C13: an inference failure never ends the worker: for every chunk whose  *)
(* model.transcribe raised, the worker thread went on with its loop (the   *)
(* exception did not leave _transcribe_audio).                             *)
C13_InferenceFailureKeepsWorker ==
    /\ \A i \in 1..Len(procLog) :
           procLog[i].outcome = "infer_error" => ~ procLog[i].handler_raised
    /\ (procLog # <<>> /\ procLog[Len(procLog)].outcome = "infer_error") =>
           tr_pc # "crashed"

(***************************************************************************)
(* Claims about the upload result, checked under SpecUpload.               *)
(***************************************************************************)
(* C14: a failing deletion of the temporary file never changes the outcome *)
(* of the request: with os.unlink failing, an upload whose transcription   *)
(* succeeded is answered 200 with its transcription, and one whose         *)
(* inference raised is answered with that inference error.                 *)
C14_CleanupFailureSwallowed ==
    (Answered /\ Validate(req.file.filename) = "ok"
              /\ ~ req.file.unlinkOk) =>
        /\ req.file.fault = "none" =>
               req.result =
                   TranscriptionResponse(req.file.segments,
                                         req.word_timestamps)
        /\ req.file.fault \in {"transcribe", "segments"} =>
               req.result = HTTPException(500, ErrorDetail, req.file.fault)

(* C15: a stream.read that raises ends the capture loop and nothing else:  *)
(* the step puts nothing on audio_queue (the partial accumulator is not    *)
(* enqueued), leaves the main thread, both flags and the worker as they    *)
(* were, and the ended capture thread puts nothing afterwards.             *)
C15_ReadFailureEndsCaptureOnly ==
    [][ /\ (rec_pc = "read" /\ rec_pc' = "done") =>
               /\ rec_end' = "error"
               /\ UNCHANGED <<audio_queue, putLog, frames, chunk_count>>
               /\ UNCHANGED <<main_pc, is_recording, is_transcribing>>
               /\ UNCHANGED <<tr_pc, cur, temp_filename, fs, procLog,
                              output>>
        /\ rec_pc = "done" =>
               /\ rec_pc' = "done"
               /\ putLog' = putLog
               /\ frames' = frames ]_vars

\* the device failed with a partial accumulator while the process is still
\* recording; the worker is transcribing a queued chunk and another waits
C15_Witness ==
    /\ rec_end = "error"
    /\ rec_pc = "done"
    /\ frames # <<>>
    /\ main_pc = "recording"
    /\ is_transcribing
    /\ tr_pc = "transcribe"
    /\ Len(putLog) = 2
    /\ Len(audio_queue) = 1

(* C17: is_recording and is_transcribing change only in a step of the main *)
(* thread inside start_recording or stop_recording; both are true when     *)
(* start_recording returns; once stop_recording has returned both are      *)
(* false and stay false.                                                   *)
C17_FlagsChangeOnlyInStartStop ==
    [][ /\ (is_recording' # is_recording
               \/ is_transcribing' # is_transcribing) =>
               main_pc' # main_pc
        /\ (main_pc = "init" /\ main_pc' = "recording") =>
               (is_recording' /\ is_transcribing')
        /\ StopReturned => (~ is_recording' /\ ~ is_transcribing') ]_vars

RECURSIVE TextUpTo(_, _)
\* the texts of the first n segments, one after the other
TextUpTo(segments, n) ==
    IF n = 0 THEN <<>> ELSE TextUpTo(segments, n - 1) \o segments[n].text

(* C20: in the result of a successful upload the segments are the engine's *)
(* segments in the engine's order, a segment has a "words" entry (the      *)
(* engine's words for it) exactly when word_timestamps was requested, and  *)
(* the text is the concatenation of the segment texts in order, trimmed of *)
(* leading and trailing whitespace.                                        *)
C20_SegmentsAndText ==
    (Answered /\ req.result.status = 200) =>
        LET segs == req.file.segments
            out == req.result.segments
        IN /\ Len(out) = Len(segs)
           /\ \A i \in 1..Len(segs) :
                  /\ out[i].text = segs[i].text
                  /\ out[i].start = segs[i].start
                  /\ out[i].end = segs[i].end
                  /\ ("words" \in DOMAIN out[i]) <=> req.word_timestamps
                  /\ req.word_timestamps => out[i].words = segs[i].words
           /\ req.result.text = Strip(TextUpTo(segs, Len(segs)))
           /\ req.result.text = <<>>
                  \/ /\ Head(req.result.text) \notin Whitespace
                     /\ req.result.text[Len(req.result.text)]
                            \notin Whitespace

\* two segments answered without word timing: " a" and " b " give "a b"
C20_Witness ==
    /\ Answered
    /\ req.result.status = 200
    /\ ~ req.word_timestamps
    /\ Len(req.result.segments) = 2
    /\ req.result.text = <<"a", " ", "b">>
    /\ "words" \notin DOMAIN req.result.segments[1]

(***************************************************************************)
(* Claims about start-up, checked under SpecStartup.                       *)
(***************************************************************************)
\* one of the four settings is outside what validate_config allows
HasIssue(c) ==
    \/ ~ \E m \in valid_models : m = c.WHISPER_MODEL
    \/ ~ \E d \in valid_devices : d = c.WHISPER_DEVICE
    \/ ~ \E t \in valid_compute_types : t = c.WHISPER_COMPUTE_TYPE
    \/ ~ \E n \in 1..32 : n = c.OMP_NUM_THREADS

(* C19: validate_config reports valid exactly when its issue list is       *)
(* empty, which is exactly when model, device and compute type are allowed *)
(* and the thread count is in 1..32; with any issue, start-up of either    *)
(* program ends before the model is loaded and before it serves requests   *)
(* or starts the capture.                                                  *)
C19_InvalidConfigAbortsStartup ==
    /\ boot_pc # "start" =>
           /\ validation.valid <=> validation.issues = <<>>
           /\ validation.valid <=> ~ HasIssue(cfg)
    /\ HasIssue(cfg) =>
           /\ ~ model_loaded
           /\ boot_pc \in {"start", "validated", "aborted"}
    /\ model_loaded => validation.valid
    /\ boot_pc = "aborted" => ~ validation.valid

\* the thread count alone is out of range and start-up has ended
C19_Witness ==
    /\ boot_pc = "aborted"
    /\ cfg.OMP_NUM_THREADS = 0
    /\ validation.issues = <<"threads">>
    /\ ~ model_loaded

(***************************************************************************)
(* Claims about a transcriber driven by a caller, checked under SpecApi    *)
(* and, for termination, SpecApiFair.                                      *)
(***************************************************************************)
(* C11: whatever start_recording and stop_recording calls are made on one  *)
(* transcriber, at most one capture thread and at most one worker thread   *)
(* are alive at any time, and at most one device stream is open.           *)
C11_OneCaptureOneWorker ==
    /\ Cardinality(RecAlive) <= 1
    /\ Cardinality(TrAlive) <= 1
    /\ streams_open <= 1

\* stop_recording has returned
ApiStopReturned ==
    /\ api_pc = "idle"
    /\ \E k \in 1..Len(api_log) : api_log[k] = Call("stop", FALSE)

(* C12: once stop_recording has returned, every worker thread eventually   *)
(* ends (its loop condition becomes false), however start_recording, the   *)
(* worker's start-up and stop_recording interleave.                        *)
C12_WorkerTerminatesAfterStop == ApiStopReturned ~> (TrAlive = {})

\* no start_recording call got past audio.open
NoStartSucceeded ==
    \A k \in 1..Len(api_log) :
        api_log[k].call = "start" => api_log[k].raised

(* C16: as long as the capture never started (no call yet, or every        *)
(* start_recording failed opening the device), no stop_recording call      *)
(* raises, there is no stream and none is touched, and both flags are      *)
(* false.                                                                  *)
C16_StopSafeWhenNeverStarted ==
    NoStartSucceeded =>
        /\ \A k \in 1..Len(api_log) :
               api_log[k].call = "stop" => ~ api_log[k].raised
        /\ stream = "none"
        /\ streams_open = 0
        /\ rec_threads = <<>> /\ tr_threads = <<>>
        /\ ~ is_recording
        /\ ~ is_transcribing

\* start_recording failed at the device and stop_recording then returned
C16_Witness ==
    /\ api_pc = "idle"
    /\ api_log = <<Call("start", TRUE), Call("stop", FALSE)>>
    /\ stream = "none"
    /\ ~ is_recording
    /\ ~ is_transcribing

(* C18: two chunks whose temp file is in use at the same time (written and *)
(* not yet removed by the worker that holds the chunk) never have the same *)
(* temp file path.                                                         *)
C18_DistinctTempPaths ==
    \A i, j \in 1..Len(tr_threads) :
        (i # j /\ tr_threads[i].pc = "transcribe"
               /\ tr_threads[j].pc = "transcribe") =>
            tr_threads[i].temp_filename # tr_threads[j].temp_filename

(***************************************************************************)
(* Claims about the chunks of a transcriber with its worker threads,       *)
(* checked under SpecApi.                                                  *)
(***************************************************************************)
\* the chunks worker i has dequeued: those it passed to the engine and the
\* one it holds between the pop and model.transcribe
Dequeued(i) ==
    tr_threads[i].submitted
        \o (IF tr_threads[i].pc \in {"write", "transcribe"}
            THEN <<tr_threads[i].cur>> ELSE <<>>)

RECURSIVE AllDequeued(_)
\* the chunks dequeued by workers 1..n, worker by worker
AllDequeued(n) ==
    IF n = 0 THEN <<>> ELSE AllDequeued(n - 1) \o Dequeued(n)

RECURSIVE AllSubmitted(_)
\* the chunks passed to model.transcribe by workers 1..n
AllSubmitted(n) ==
    IF n = 0 THEN <<>> ELSE AllSubmitted(n - 1) \o tr_threads[n].submitted

\* no element occurs twice in the sequence
NoRepeat(seq) ==
    \A a \in 1..Len(seq) : \A b \in (a + 1)..Len(seq) : seq[a] # seq[b]

(* C21: every chunk put on the queue is dequeued at most once and passed   *)
(* to the engine at most once, by whichever worker: the chunks dequeued so *)
(* far, by all workers, are chunks that were put, none occurs twice, none  *)
(* is still on the queue, and each put chunk is either on the queue or     *)
(* dequeued.                                                               *)
C21_ChunkDequeuedAtMostOnce ==
    LET taken == AllDequeued(Len(tr_threads))
        sent == AllSubmitted(Len(tr_threads))
    IN /\ NoRepeat(taken \o audio_queue)
       /\ NoRepeat(sent)
       /\ \A k \in 1..Len(taken) :
              \E p \in 1..Len(putLog) : putLog[p] = taken[k]
       /\ Len(taken) + Len(audio_queue) = Len(putLog)

\* two workers have each passed one of the two chunks to the engine
C21_Witness ==
    /\ Len(tr_threads) = 2
    /\ Len(putLog) = 2
    /\ Len(tr_threads[1].submitted) = 1
    /\ Len(tr_threads[2].submitted) = 1
    /\ audio_queue = <<>>

(***************************************************************************)
(* Claims about the end of the capture and the worker's output, checked    *)
(* under Spec.                                                             *)
(***************************************************************************)
(* C22: once a failing stream.read has ended the capture loop, the         *)
(* pipeline no longer reports the capture as active: is_recording is not   *)
(* true while the capture thread has ended on a device error.              *)
C22_DeviceErrorClearsRecording ==
    (rec_pc = "done" /\ rec_end = "error") => ~ is_recording

(* C23: every chunk put has exactly frames_per_chunk frames, and when the  *)
(* capture loop has ended, by the flag or by a device error, the frames    *)
(* read after the last full chunk (fewer than frames_per_chunk) are in no  *)
(* chunk: the chunks put, each of them on the queue or dequeued, number    *)
(* floor(frames read / frames_per_chunk).                                  *)
C23_PartialChunkDiscarded ==
    /\ \A i \in 1..Len(putLog) :
           Len(putLog[i]) = FramesPerChunk(RATE, CHUNK, RECORD_SECONDS)
    /\ \A i \in 1..Len(audio_queue) :
           Len(audio_queue[i]) = FramesPerChunk(RATE, CHUNK, RECORD_SECONDS)
    /\ Len(audio_queue) + Len(procLog) = Len(putLog)
    /\ rec_pc = "done" =>
           /\ frames_per_chunk > 0
           /\ Len(frames) < frames_per_chunk
           /\ Len(frames) = reads % frames_per_chunk
           /\ Len(putLog) = reads \div frames_per_chunk
           /\ \A k \in 1..Len(frames) : \A i \in 1..Len(putLog) :
                  \A j \in 1..Len(putLog[i]) : putLog[i][j] # frames[k]

\* stop_recording ended the capture with one chunk put and frames left over
C23_Witness ==
    /\ rec_pc = "done"
    /\ rec_end = "flag"
    /\ StopReturned
    /\ Len(putLog) = 1
    /\ frames # <<>>
    /\ reads = frames_per_chunk + Len(frames)

\* the place in the worker's order of the chunk an output line is for
\* (0: the line is for no chunk the worker dequeued)
DequeuePosition(line) ==
    IF \E p \in 1..Len(procLog) : procLog[p].chunk = line.chunk
    THEN CHOOSE p \in 1..Len(procLog) : procLog[p].chunk = line.chunk
    ELSE 0

(* C24: the worker dequeues the chunks in the order the capture loop put   *)
(* them; every output line is for a chunk it dequeued whose inference did  *)
(* not fail, its text is non-empty and trimmed, and the lines are in the   *)
(* order of their chunks with at most one line per chunk.                  *)
C24_OutputInCaptureOrder ==
    /\ Len(procLog) <= Len(putLog)
    /\ \A i \in 1..Len(procLog) : procLog[i].chunk = putLog[i]
    /\ Len(output) <= Len(procLog)
    /\ \A k \in 1..Len(output) :
           /\ DequeuePosition(output[k]) # 0
           /\ procLog[DequeuePosition(output[k])].outcome
                  \in {"ok", "remove_error"}
           /\ output[k].text # <<>>
           /\ Head(output[k].text) \notin Whitespace
           /\ output[k].text[Len(output[k].text)] \notin Whitespace
           /\ \A l \in (k + 1)..Len(output) :
                  DequeuePosition(output[k]) < DequeuePosition(output[l])

\* of two chunks, the first one's inference failed and only the second
\* one has a line
C24_Witness ==
    /\ Len(procLog) = 2
    /\ procLog[1].outcome = "infer_error"
    /\ procLog[2].outcome = "ok"
    /\ Len(output) = 1
    /\ output[1].chunk = putLog[2]
    /\ output[1].text = <<"a">>

====
